---- MODULE Spec2Model ----
(***************************************************************************)
(* A model of rtabmap's map node, class Signature                          *)
(* (corelib/src/Signature.cpp): the feature maps _words / _words3, the     *)
(* remap ledger _wordsChanged, the three edge maps and the flags, with one *)
(* action per member function.                                             *)
(***************************************************************************)
EXTENDS Integers, Sequences, FiniteSets, TLC

\* ------------------------------------------------------------------ bounds

\* At most this many edges are held by the three edge maps together.
MaxEdges == 3
\* At most this many entries are in a words map handed to the constructor.
MaxWords == 2
\* At most this many remaps are recorded before changeWordsRef stops moving.
MaxLedger == 2

\* ------------------------------------------------------------ value spaces

\* Node ids used as edge keys; 0 is the reserved "no link" id.
EdgeIds == {0, 2, 3}
\* Relative transforms carried by the edges.
Transforms == {"T1", "T2"}
\* Feature identifiers (keys of _words and _words3).
WordIds == {5, 7, 9}
\* 2D feature locations (cv::KeyPoint) and 3D points (pcl::PointXYZ).
KeyPoints == {"kp1", "kp2"}
Points == {"pt1", "pt2"}

\* ------------------------------------------------- std::map<int, Transform>

EmptyMap == << >>

\* A variant of MapInsert that overwrites the value of a key already present
\* (operator[] semantics instead of insert).
MapInsertOverwrites(m, k, v) ==
    [x \in (DOMAIN m) \cup {k} |-> IF x = k THEN v ELSE m[x]]

\* std::map::insert: inserts only when the key is absent, never overwrites.
MapInsert(m, k, v) ==
    IF k \in DOMAIN m THEN m
    ELSE [x \in (DOMAIN m) \cup {k} |-> IF x = k THEN v ELSE m[x]]

\* std::map::erase, by key or by an iterator to the key's element.
MapErase(m, k) == [x \in (DOMAIN m) \ {k} |-> m[x]]

\* std::map::find(k) != end()
MapHas(m, k) == k \in DOMAIN m

\* ------------------------------------------------ std::multimap<int, Value>
\* A multimap is a function from the keys that have entries to the non-empty
\* sequence of the values stored under the key, in insertion order.

EmptyMM == << >>

\* uValues(mm, k): the list of the values stored under k.
uValues(mm, k) == IF k \in DOMAIN mm THEN mm[k] ELSE << >>

\* std::multimap::erase(k): removes every entry under k.
MMErase(mm, k) == [x \in (DOMAIN mm) \ {k} |-> mm[x]]

\* std::multimap::insert(pair(k, v)): always adds one entry, after the
\* entries already stored under k.
MMInsert(mm, k, v) ==
    [x \in (DOMAIN mm) \cup {k} |->
        IF x = k THEN Append(uValues(mm, k), v) ELSE mm[x]]

\* A variant of MMInsertAll that inserts the first value of the list only.
MMInsertFirstOnly(mm, k, vals) ==
    IF vals = << >> THEN mm ELSE MMInsert(mm, k, Head(vals))

\* The loops of changeWordsRef: insert every value of the list under k.
RECURSIVE MMInsertAll(_, _, _)
MMInsertAll(mm, k, vals) ==
    IF vals = << >> THEN mm
    ELSE MMInsertAll(MMInsert(mm, k, Head(vals)), k, Tail(vals))

\* std::multimap::count(k) and std::multimap::size().
MMCount(mm, k) == Len(uValues(mm, k))

RECURSIVE SumCounts(_, _)
SumCounts(mm, keys) ==
    IF keys = {} THEN 0
    ELSE LET k == CHOOSE x \in keys : TRUE
         IN  Len(mm[k]) + SumCounts(mm, keys \ {k})

MMSize(mm) == SumCounts(mm, DOMAIN mm)

\* ------------------------------------------------------------------- state

VARIABLES
    id, mapId, pose, localTransform, image, depth2D,   \* fixed at construction
    weight, saved, modified, enabled,                  \* owner's bookkeeping
    neighborsModified,                                 \* edges changed
    words, words3, wordsChanged,                       \* feature maps, ledger
    neighbors, loopClosureIds, childLoopClosureIds,    \* edge maps
    depth, fx, fy, cx, cy,                             \* depth and intrinsics
    fatal,        \* TRUE once a UASSERT has failed: the call never returned
    otherWords,   \* _words of the other node, the one compareTo is given
    last          \* the last call: its name, arguments and local values

fixedVars == <<id, mapId, pose, localTransform, image, depth2D>>
flagVars  == <<weight, saved, modified, enabled>>
wordVars  == <<words, words3, wordsChanged>>
edgeVars  == <<neighbors, loopClosureIds, childLoopClosureIds>>
depthVars == <<depth, fx, fy, cx, cy>>

\* Every field of the node (all of the state but the record of the last call).
node == <<fixedVars, flagVars, neighborsModified, wordVars, edgeVars,
          depthVars, fatal>>

vars == <<node, otherWords, last>>

\* The record of a call: op its name, a and b its integer arguments, t the
\* transform it was given or moved, n the count it computed (erased entries,
\* entries found, size before the call).  For setDepth t holds the five
\* arguments; for compareTo t holds the pairs found, a and b the numerator
\* and the denominator of the similarity returned.
Call(op, a, b, t, n) == [op |-> op, a |-> a, b |-> b, t |-> t, n |-> n]

NoT == "-"

\* ------------------------------------------------------------- constructor

\* Signature::Signature: copies its arguments, validates nothing.
Ctor(id0, mapId0, words0, words30, pose0, depth2D0, image0, depth0, fx0, fy0, cx0, cy0, localTransform0) ==
    /\ id = id0
    /\ mapId = mapId0
    /\ weight = 0
    /\ saved = FALSE
    /\ modified = TRUE
    /\ neighborsModified = TRUE
    /\ words = words0
    /\ enabled = FALSE
    /\ image = image0
    /\ depth = depth0
    /\ depth2D = depth2D0
    /\ fx = fx0
    /\ fy = fy0
    /\ cx = cx0
    /\ cy = cy0
    /\ pose = pose0
    /\ localTransform = localTransform0
    /\ words3 = words30
    /\ wordsChanged = << >>
    /\ neighbors = EmptyMap
    /\ loopClosureIds = EmptyMap
    /\ childLoopClosureIds = EmptyMap
    /\ fatal = FALSE
    /\ last = Call("Signature", id0, mapId0, NoT, 0)

\* The words maps the constructor is handed: every multimap over the value
\* set with at most n entries.
SeqsUpTo(V, n) == UNION {[1..k -> V] : k \in 1..n}

MultiMaps(V, n) ==
    {mm \in UNION {[S -> SeqsUpTo(V, n)] : S \in SUBSET WordIds} :
        MMSize(mm) <= n}

\* The 3D point of a 2D feature, and the words3 map holding the 3D point of
\* every entry of a words map (same identifiers, same multiplicities).
PointOf(kp) == IF kp = "kp1" THEN "pt1" ELSE "pt2"

PointsOf(mm) == [k \in DOMAIN mm |-> [i \in 1..Len(mm[k]) |-> PointOf(mm[k][i])]]

\* The words3 maps handed to the constructor with a given words map: the 3D
\* points of all its entries, or no 3D point at all (no depth), or a single
\* 3D point under some identifier.
Words3For(w) ==
    {PointsOf(w)} \cup MultiMaps(Points, 1)

\* ------------------------------------------------------------ edge mutation

\* The number of edges held by the three edge maps together.
EdgeCount ==
    Cardinality(DOMAIN neighbors) + Cardinality(DOMAIN loopClosureIds)
        + Cardinality(DOMAIN childLoopClosureIds)

\* A call may add an edge under key k of map m only below the bound.
Room(m, k) == MapHas(m, k) \/ EdgeCount < MaxEdges

\* A variant of addNeighbor that assigns the map instead of inserting in it.
addNeighborAssignsMap(neighbor, transform) ==
    /\ ~fatal
    /\ Room(neighbors, neighbor)
    /\ neighbors' = MapInsert(EmptyMap, neighbor, transform)
    /\ neighborsModified' = TRUE
    /\ last' = Call("addNeighbor", neighbor, 0, transform, 0)
    /\ UNCHANGED <<fixedVars, flagVars, wordVars, loopClosureIds,
                   childLoopClosureIds, depthVars, fatal, otherWords>>

\* Signature::addNeighbor
addNeighbor(neighbor, transform) ==
    /\ ~fatal
    /\ Room(neighbors, neighbor)
    /\ neighbors' = MapInsert(neighbors, neighbor, transform)
    /\ neighborsModified' = TRUE
    /\ last' = Call("addNeighbor", neighbor, 0, transform, 0)
    /\ UNCHANGED <<fixedVars, flagVars, wordVars, loopClosureIds,
                   childLoopClosureIds, depthVars, fatal, otherWords>>

\* The loop of Signature::addNeighbors: addNeighbor on every entry of the
\* argument, in key order.  Returns the pair <<neighbor map, flag>>.
RECURSIVE addNeighborsLoop(_, _, _)
addNeighborsLoop(nb, flag, arg) ==
    IF DOMAIN arg = {} THEN <<nb, flag>>
    ELSE LET k == CHOOSE x \in DOMAIN arg : \A y \in DOMAIN arg : x <= y
         IN  addNeighborsLoop(MapInsert(nb, k, arg[k]), TRUE, MapErase(arg, k))

\* Signature::addNeighbors
addNeighbors(arg) ==
    LET r == addNeighborsLoop(neighbors, neighborsModified, arg)
    IN  /\ ~fatal
        /\ EdgeCount + Cardinality(DOMAIN r[1]) - Cardinality(DOMAIN neighbors)
               <= MaxEdges
        /\ neighbors' = r[1]
        /\ neighborsModified' = r[2]
        /\ last' = Call("addNeighbors", 0, 0, NoT, Cardinality(DOMAIN arg))
        /\ UNCHANGED <<fixedVars, flagVars, wordVars, loopClosureIds,
                       childLoopClosureIds, depthVars, fatal, otherWords>>

\* A variant of removeNeighbor that sets the flag whatever erase returned.
removeNeighborAlwaysFlags(neighborId) ==
    /\ ~fatal
    /\ neighbors' = MapErase(neighbors, neighborId)
    /\ neighborsModified' = TRUE
    /\ last' = Call("removeNeighbor", neighborId, 0, NoT,
                    IF MapHas(neighbors, neighborId) THEN 1 ELSE 0)
    /\ UNCHANGED <<fixedVars, flagVars, wordVars, loopClosureIds,
                   childLoopClosureIds, depthVars, fatal, otherWords>>

\* Signature::removeNeighbor
removeNeighbor(neighborId) ==
    LET count == IF MapHas(neighbors, neighborId) THEN 1 ELSE 0
    IN  /\ ~fatal
        /\ neighbors' = MapErase(neighbors, neighborId)
        /\ neighborsModified' = IF count # 0 THEN TRUE ELSE neighborsModified
        /\ last' = Call("removeNeighbor", neighborId, 0, NoT, count)
        /\ UNCHANGED <<fixedVars, flagVars, wordVars, loopClosureIds,
                       childLoopClosureIds, depthVars, fatal, otherWords>>

\* A variant of removeNeighbors that assigns the flag the result of its test.
removeNeighborsAssignsFlag ==
    LET size == Cardinality(DOMAIN neighbors)
    IN  /\ ~fatal
        /\ neighborsModified' = (size # 0)
        /\ neighbors' = EmptyMap
        /\ last' = Call("removeNeighbors", 0, 0, NoT, size)
        /\ UNCHANGED <<fixedVars, flagVars, wordVars, loopClosureIds,
                       childLoopClosureIds, depthVars, fatal, otherWords>>

\* Signature::removeNeighbors
removeNeighbors ==
    LET size == Cardinality(DOMAIN neighbors)
    IN  /\ ~fatal
        /\ neighborsModified' = IF size # 0 THEN TRUE ELSE neighborsModified
        /\ neighbors' = EmptyMap
        /\ last' = Call("removeNeighbors", 0, 0, NoT, size)
        /\ UNCHANGED <<fixedVars, flagVars, wordVars, loopClosureIds,
                       childLoopClosureIds, depthVars, fatal, otherWords>>

\* A variant of MoveKey that inserts under idTo before it erases idFrom.
MoveKeyInsertsFirst(m, idFrom, idTo) ==
    IF idFrom \in DOMAIN m
    THEN MapErase(MapInsert(m, idTo, m[idFrom]), idFrom)
    ELSE m

\* The body of changeNeighborIds and of changeLoopClosureId on its map:
\* find idFrom; when found, erase it and insert its transform under idTo.
MoveKey(m, idFrom, idTo) ==
    IF MapHas(m, idFrom)
    THEN MapInsert(MapErase(m, idFrom), idTo, m[idFrom])
    ELSE m

\* A variant of changeNeighborIds that sets the flag outside the if.
changeNeighborIdsAlwaysFlags(idFrom, idTo) ==
    LET found == MapHas(neighbors, idFrom)
    IN  /\ ~fatal
        /\ neighbors' = MoveKey(neighbors, idFrom, idTo)
        /\ neighborsModified' = TRUE
        /\ last' = Call("changeNeighborIds", idFrom, idTo,
                        IF found THEN neighbors[idFrom] ELSE NoT,
                        IF found THEN 1 ELSE 0)
        /\ UNCHANGED <<fixedVars, flagVars, wordVars, loopClosureIds,
                       childLoopClosureIds, depthVars, fatal, otherWords>>

\* Signature::changeNeighborIds
changeNeighborIds(idFrom, idTo) ==
    LET found == MapHas(neighbors, idFrom)
    IN  /\ ~fatal
        /\ neighbors' = MoveKey(neighbors, idFrom, idTo)
        /\ neighborsModified' = IF found THEN TRUE ELSE neighborsModified
        /\ last' = Call("changeNeighborIds", idFrom, idTo,
                        IF found THEN neighbors[idFrom] ELSE NoT,
                        IF found THEN 1 ELSE 0)
        /\ UNCHANGED <<fixedVars, flagVars, wordVars, loopClosureIds,
                       childLoopClosureIds, depthVars, fatal, otherWords>>

\* A variant of Inserted without the test of the id against 0.
InsertedWithoutZeroTest(m, k) == k \notin DOMAIN m

\* The test of addLoopClosureId and addChildLoopClosureId: the id is not 0
\* and insert(...).second says the pair was inserted.
Inserted(m, k) == k # 0 /\ ~MapHas(m, k)

\* A variant of addLoopClosureId that adds one to the weight of the node when
\* the loop closure is inserted.
addLoopClosureIdAddsWeight(loopClosureId, transform) ==
    LET ok == Inserted(loopClosureIds, loopClosureId)
    IN  /\ ~fatal
        /\ ok => EdgeCount < MaxEdges
        /\ loopClosureIds' =
               IF loopClosureId # 0
               THEN MapInsert(loopClosureIds, loopClosureId, transform)
               ELSE loopClosureIds
        /\ neighborsModified' = IF ok THEN TRUE ELSE neighborsModified
        /\ weight' = IF ok THEN weight + 1 ELSE weight
        /\ last' = Call("addLoopClosureId", loopClosureId, 0, transform,
                        IF ok THEN 1 ELSE 0)
        /\ UNCHANGED <<fixedVars, saved, modified, enabled, wordVars,
                       neighbors, childLoopClosureIds, depthVars, fatal,
                       otherWords>>

\* Signature::addLoopClosureId
addLoopClosureId(loopClosureId, transform) ==
    LET ok == Inserted(loopClosureIds, loopClosureId)
    IN  /\ ~fatal
        /\ ok => EdgeCount < MaxEdges
        /\ loopClosureIds' =
               IF loopClosureId # 0
               THEN MapInsert(loopClosureIds, loopClosureId, transform)
               ELSE loopClosureIds
        /\ neighborsModified' = IF ok THEN TRUE ELSE neighborsModified
        /\ last' = Call("addLoopClosureId", loopClosureId, 0, transform,
                        IF ok THEN 1 ELSE 0)
        /\ UNCHANGED <<fixedVars, flagVars, wordVars, neighbors,
                       childLoopClosureIds, depthVars, fatal, otherWords>>

\* Signature::addChildLoopClosureId
addChildLoopClosureId(childLoopClosureId, transform) ==
    LET ok == Inserted(childLoopClosureIds, childLoopClosureId)
    IN  /\ ~fatal
        /\ ok => EdgeCount < MaxEdges
        /\ childLoopClosureIds' =
               IF childLoopClosureId # 0
               THEN MapInsert(childLoopClosureIds, childLoopClosureId,
                              transform)
               ELSE childLoopClosureIds
        /\ neighborsModified' = IF ok THEN TRUE ELSE neighborsModified
        /\ last' = Call("addChildLoopClosureId", childLoopClosureId, 0,
                        transform, IF ok THEN 1 ELSE 0)
        /\ UNCHANGED <<fixedVars, flagVars, wordVars, neighbors,
                       loopClosureIds, depthVars, fatal, otherWords>>

\* A variant of changeLoopClosureId that remaps childLoopClosureIds as well.
changeLoopClosureIdBothMaps(idFrom, idTo) ==
    LET found == MapHas(loopClosureIds, idFrom)
    IN  /\ ~fatal
        /\ loopClosureIds' = MoveKey(loopClosureIds, idFrom, idTo)
        /\ childLoopClosureIds' = MoveKey(childLoopClosureIds, idFrom, idTo)
        /\ neighborsModified' = IF found THEN TRUE ELSE neighborsModified
        /\ last' = Call("changeLoopClosureId", idFrom, idTo,
                        IF found THEN loopClosureIds[idFrom] ELSE NoT,
                        IF found THEN 1 ELSE 0)
        /\ UNCHANGED <<fixedVars, flagVars, wordVars, neighbors, depthVars,
                       fatal, otherWords>>

\* Signature::changeLoopClosureId
changeLoopClosureId(idFrom, idTo) ==
    LET found == MapHas(loopClosureIds, idFrom)
    IN  /\ ~fatal
        /\ loopClosureIds' = MoveKey(loopClosureIds, idFrom, idTo)
        /\ neighborsModified' = IF found THEN TRUE ELSE neighborsModified
        /\ last' = Call("changeLoopClosureId", idFrom, idTo,
                        IF found THEN loopClosureIds[idFrom] ELSE NoT,
                        IF found THEN 1 ELSE 0)
        /\ UNCHANGED <<fixedVars, flagVars, wordVars, neighbors,
                       childLoopClosureIds, depthVars, fatal, otherWords>>

\* ------------------------------------------------------ feature-map mutation

\* _wordsChanged.insert(make_pair(old, active)): one more entry of the ledger.
LedgerInsert(ledger, old, active) == Append(ledger, <<old, active>>)

\* A variant of changeWordsRef that records the remap outside the if.
changeWordsRefAlwaysRecords(oldWordId, activeWordId) ==
    LET kps == uValues(words, oldWordId)
        pts == uValues(words3, oldWordId)
    IN  /\ ~fatal
        /\ Len(wordsChanged) < MaxLedger
        /\ words' = MMInsertAll(MMErase(words, oldWordId), activeWordId, kps)
        /\ words3' = IF Len(kps) # 0
                     THEN MMInsertAll(MMErase(words3, oldWordId),
                                      activeWordId, pts)
                     ELSE words3
        /\ wordsChanged' = Append(wordsChanged, <<oldWordId, activeWordId>>)
        /\ last' = Call("changeWordsRef", oldWordId, activeWordId, NoT,
                        Len(kps))
        /\ UNCHANGED <<fixedVars, flagVars, neighborsModified, edgeVars,
                       depthVars, fatal, otherWords>>

\* A variant of changeWordsRef that does not erase the old identifier from
\* words3 before re-inserting its points.
changeWordsRefKeepsOld3D(oldWordId, activeWordId) ==
    LET kps == uValues(words, oldWordId)
        pts == uValues(words3, oldWordId)
    IN  /\ ~fatal
        /\ IF Len(kps) # 0
           THEN /\ Len(wordsChanged) < MaxLedger
                /\ words' = MMInsertAll(MMErase(words, oldWordId),
                                        activeWordId, kps)
                /\ words3' = MMInsertAll(words3, activeWordId, pts)
                /\ wordsChanged' =
                       LedgerInsert(wordsChanged, oldWordId, activeWordId)
           ELSE UNCHANGED wordVars
        /\ last' = Call("changeWordsRef", oldWordId, activeWordId, NoT,
                        Len(kps))
        /\ UNCHANGED <<fixedVars, flagVars, neighborsModified, edgeVars,
                       depthVars, fatal, otherWords>>

\* Signature::changeWordsRef
changeWordsRef(oldWordId, activeWordId) ==
    LET kps == uValues(words, oldWordId)
        pts == uValues(words3, oldWordId)
    IN  /\ ~fatal
        /\ IF Len(kps) # 0
           THEN /\ Len(wordsChanged) < MaxLedger
                /\ words' = MMInsertAll(MMErase(words, oldWordId),
                                        activeWordId, kps)
                /\ words3' = MMInsertAll(MMErase(words3, oldWordId),
                                         activeWordId, pts)
                /\ wordsChanged' =
                       LedgerInsert(wordsChanged, oldWordId, activeWordId)
           ELSE UNCHANGED wordVars
        /\ last' = Call("changeWordsRef", oldWordId, activeWordId, NoT,
                        Len(kps))
        /\ UNCHANGED <<fixedVars, flagVars, neighborsModified, edgeVars,
                       depthVars, fatal, otherWords>>

\* A variant of isBadSignature that tests the 3D words.
isBadSignatureOn3D == MMSize(words3) = 0

\* Signature::isBadSignature
isBadSignature == MMSize(words) = 0

\* A variant of removeAllWords that marks the node modified.
removeAllWordsSetsModified ==
    /\ ~fatal
    /\ words' = EmptyMM
    /\ words3' = EmptyMM
    /\ modified' = TRUE
    /\ last' = Call("removeAllWords", 0, 0, NoT, MMSize(words))
    /\ UNCHANGED <<fixedVars, weight, saved, enabled, neighborsModified,
                   wordsChanged, edgeVars, depthVars, fatal, otherWords>>

\* Signature::removeAllWords
removeAllWords ==
    /\ ~fatal
    /\ words' = EmptyMM
    /\ words3' = EmptyMM
    /\ last' = Call("removeAllWords", 0, 0, NoT, MMSize(words))
    /\ UNCHANGED <<fixedVars, flagVars, neighborsModified, wordsChanged,
                   edgeVars, depthVars, fatal, otherWords>>

\* A variant of removeWord that erases the identifier from words only.
removeWordFrom2DOnly(wordId) ==
    /\ ~fatal
    /\ words' = MMErase(words, wordId)
    /\ words3' = words3
    /\ last' = Call("removeWord", wordId, 0, NoT,
                    Len(uValues(words, wordId)))
    /\ UNCHANGED <<fixedVars, flagVars, neighborsModified, wordsChanged,
                   edgeVars, depthVars, fatal, otherWords>>

\* Signature::removeWord
removeWord(wordId) ==
    /\ ~fatal
    /\ words' = MMErase(words, wordId)
    /\ words3' = MMErase(words3, wordId)
    /\ last' = Call("removeWord", wordId, 0, NoT, MMCount(words, wordId))
    /\ UNCHANGED <<fixedVars, flagVars, neighborsModified, wordsChanged,
                   edgeVars, depthVars, fatal, otherWords>>

\* ---------------------------------------------------------------- similarity

\* The pairs EpipolarGeometry::findPairs may yield for two words maps: each a
\* triple <<identifier, value in wordsA, value in wordsB>> of an identifier
\* the two maps share, at most one pair per identifier.
FindPairs(wordsA, wordsB) ==
    LET shared == (DOMAIN wordsA) \cap (DOMAIN wordsB)
        candidates ==
            UNION {{<<k, wordsA[k][i], wordsB[k][j]>> :
                        i \in 1..Len(wordsA[k]), j \in 1..Len(wordsB[k])} :
                   k \in shared}
    IN  {P \in SUBSET candidates : \A p \in P, q \in P : p[1] = q[1] => p = q}

\* A variant of compareTo that divides by the smaller of the two sizes.
compareToOverSmaller ==
    /\ ~fatal
    /\ IF MMSize(otherWords) # 0 /\ MMSize(words) # 0
       THEN \E pairs \in FindPairs(otherWords, words) :
                LET totalWords == IF MMSize(words) < MMSize(otherWords)
                                  THEN MMSize(words) ELSE MMSize(otherWords)
                IN  last' = Call("compareTo", Cardinality(pairs), totalWords,
                                 pairs, 1)
       ELSE last' = Call("compareTo", 0, 1, NoT, 0)
    /\ UNCHANGED <<node, otherWords>>

\* A variant of compareTo that divides the number of words by the number of
\* pairs.
compareToInverted ==
    /\ ~fatal
    /\ IF MMSize(otherWords) # 0 /\ MMSize(words) # 0
       THEN \E pairs \in FindPairs(otherWords, words) :
                LET totalWords == IF MMSize(words) > MMSize(otherWords)
                                  THEN MMSize(words) ELSE MMSize(otherWords)
                IN  last' = Call("compareTo", totalWords, Cardinality(pairs),
                                 pairs, 1)
       ELSE last' = Call("compareTo", 0, 1, NoT, 0)
    /\ UNCHANGED <<node, otherWords>>

\* Signature::compareTo.  The similarity returned is last'.a / last'.b: 0 / 1
\* when the pairer is not called, pairs.size() / totalWords otherwise;
\* last'.n counts the calls of findPairs.
compareTo ==
    /\ ~fatal
    /\ IF MMSize(otherWords) # 0 /\ MMSize(words) # 0
       THEN \E pairs \in FindPairs(otherWords, words) :
                LET totalWords == IF MMSize(words) > MMSize(otherWords)
                                  THEN MMSize(words) ELSE MMSize(otherWords)
                IN  last' = Call("compareTo", Cardinality(pairs), totalWords,
                                 pairs, 1)
       ELSE last' = Call("compareTo", 0, 1, NoT, 0)
    /\ UNCHANGED <<node, otherWords>>

\* ------------------------------------------------------ depth and intrinsics

\* Depth buffers given to the constructor and to setDepth: none, or three
\* bytes.
Depths == {<< >>, <<1, 2, 3>>}

\* Values of fx, fy, cx, cy: a negative one, zero, a positive one.
Intrinsics == {-1, 0, 1}

\* A variant of DepthAsserted that accepts fx = 0 and fy = 0.
DepthAssertedFromZero(depth0, fx0, fy0, cx0, cy0) ==
    \/ depth0 = << >>
    \/ (depth0 # << >> /\ fx0 >= 0 /\ fy0 >= 0 /\ cx0 >= 0 /\ cy0 >= 0)

\* The condition of setDepth's UASSERT_MSG.
DepthAsserted(depth0, fx0, fy0, cx0, cy0) ==
    \/ depth0 = << >>
    \/ (depth0 # << >> /\ fx0 > 0 /\ fy0 > 0 /\ cx0 >= 0 /\ cy0 >= 0)

\* A variant of setDepth that stores the depth before it asserts.
setDepthStoresFirst(depth0, fx0, fy0, cx0, cy0) ==
    /\ ~fatal
    /\ depth' = depth0
    /\ IF DepthAsserted(depth0, fx0, fy0, cx0, cy0)
       THEN /\ fx' = fx0
            /\ fy' = fy0
            /\ cx' = cx0
            /\ cy' = cy0
            /\ fatal' = FALSE
       ELSE /\ fatal' = TRUE
            /\ UNCHANGED <<fx, fy, cx, cy>>
    /\ last' = Call("setDepth", 0, 0, <<depth0, fx0, fy0, cx0, cy0>>,
                    Len(depth0))
    /\ UNCHANGED <<fixedVars, flagVars, neighborsModified, wordVars, edgeVars,
                   otherWords>>

\* Signature::setDepth: a failed UASSERT_MSG is fatal, the assignments after
\* it are never made.
setDepth(depth0, fx0, fy0, cx0, cy0) ==
    /\ ~fatal
    /\ IF DepthAsserted(depth0, fx0, fy0, cx0, cy0)
       THEN /\ depth' = depth0
            /\ fx' = fx0
            /\ fy' = fy0
            /\ cx' = cx0
            /\ cy' = cy0
            /\ fatal' = FALSE
       ELSE /\ fatal' = TRUE
            /\ UNCHANGED depthVars
    /\ last' = Call("setDepth", 0, 0, <<depth0, fx0, fy0, cx0, cy0>>,
                    Len(depth0))
    /\ UNCHANGED <<fixedVars, flagVars, neighborsModified, wordVars, edgeVars,
                   otherWords>>

\* ---------------------------------------------------------------- the owner

\* The owning store persists the node: the node is saved and nothing has
\* changed since.
ownerSaves ==
    /\ ~fatal
    /\ saved' = TRUE
    /\ modified' = FALSE
    /\ neighborsModified' = FALSE
    /\ last' = Call("ownerSaves", 0, 0, NoT, 0)
    /\ UNCHANGED <<fixedVars, weight, enabled, wordVars, edgeVars, depthVars,
                   fatal, otherWords>>

\* ----------------------------------------------------------- specifications

\* The edge maps given to addNeighbors: at most MaxBatch entries.
MaxBatch == 2

BatchMaps ==
    {m \in UNION {[S -> Transforms] : S \in SUBSET EdgeIds} :
        Cardinality(DOMAIN m) <= MaxBatch}

\* The node of the documented scenario, words = {5: kp1, 7: kp2} with their 3D
\* points, no depth.
InitScenario ==
    /\ Ctor(1, 0, (5 :> <<"kp1">>) @@ (7 :> <<"kp2">>),
            (5 :> <<"pt1">>) @@ (7 :> <<"pt2">>),
            "P", << >>, << >>, << >>, 0, 0, 0, 0, "L")
    /\ otherWords = EmptyMM

\* A node built from any words map of at most MaxWords entries and a words3
\* map the constructor does not compare with it.
InitWords ==
    \E w \in MultiMaps(KeyPoints, MaxWords) : \E w3 \in Words3For(w) :
        /\ Ctor(1, 0, w, w3, "P", << >>, << >>, << >>, 0, 0, 0, 0, "L")
        /\ otherWords = EmptyMM

\* A node built from a words map and the 3D points of all its entries.
InitLockstep ==
    \E w \in MultiMaps(KeyPoints, MaxWords) :
        /\ Ctor(1, 0, w, PointsOf(w), "P", << >>, << >>, << >>, 0, 0, 0, 0,
                "L")
        /\ otherWords = EmptyMM

\* The edge operations of the node.
NextEdges ==
    \/ \E k \in EdgeIds, t \in Transforms : addNeighbor(k, t)
    \/ \E m \in BatchMaps : addNeighbors(m)
    \/ \E k \in EdgeIds : removeNeighbor(k)
    \/ removeNeighbors
    \/ \E a \in EdgeIds, b \in EdgeIds : changeNeighborIds(a, b)
    \/ \E k \in EdgeIds, t \in Transforms : addLoopClosureId(k, t)
    \/ \E k \in EdgeIds, t \in Transforms : addChildLoopClosureId(k, t)
    \/ \E a \in EdgeIds, b \in EdgeIds : changeLoopClosureId(a, b)

\* The feature-map operations of the node.
NextWords ==
    \/ \E a \in WordIds, b \in WordIds : changeWordsRef(a, b)
    \/ \E k \in WordIds : removeWord(k)
    \/ removeAllWords

\* The edge operations, on the scenario's node.
SpecEdges == InitScenario /\ [][NextEdges]_vars

\* The edge operations and the owner persisting the node in between.
SpecEdgesOwner == InitScenario /\ [][NextEdges \/ ownerSaves]_vars

\* The two edge remapping operations with any arguments and changeWordsRef
\* of any identifier to 9, on the scenario's node given one neighbor, one loop
\* closure and one child loop closure, with the owner persisting the node in
\* between.
NextRemap ==
    \/ addNeighbor(2, "T1")
    \/ addLoopClosureId(2, "T1")
    \/ addChildLoopClosureId(3, "T2")
    \/ ownerSaves
    \/ \E a \in EdgeIds, b \in EdgeIds : changeNeighborIds(a, b)
    \/ \E a \in EdgeIds, b \in EdgeIds : changeLoopClosureId(a, b)
    \/ \E a \in WordIds : changeWordsRef(a, 9)

SpecRemap == InitScenario /\ [][NextRemap]_vars

\* The feature-map operations, on a node built from any words and words3.
SpecWords == InitWords /\ [][NextWords]_vars

\* The feature-map operations, on a node built with words3 matching words.
SpecLockstep == InitLockstep /\ [][NextWords]_vars

\* A node built with any depth buffer and any intrinsics, which the
\* constructor does not validate.
InitDepth ==
    \E d \in Depths, x \in Intrinsics, y \in Intrinsics, u \in Intrinsics,
       v \in Intrinsics :
        /\ Ctor(1, 0, EmptyMM, EmptyMM, "P", << >>, << >>, d, x, y, u, v, "L")
        /\ otherWords = EmptyMM

NextDepth ==
    \E d \in Depths, x \in Intrinsics, y \in Intrinsics, u \in Intrinsics,
       v \in Intrinsics : setDepth(d, x, y, u, v)

\* setDepth with any arguments, on a node built with any depth and intrinsics.
SpecDepth == InitDepth /\ [][NextDepth]_vars

\* Two nodes built from any two words maps of at most MaxWords entries.
InitCompare ==
    \E w \in MultiMaps(KeyPoints, MaxWords) :
        \E o \in MultiMaps(KeyPoints, MaxWords) :
            /\ Ctor(1, 0, w, PointsOf(w), "P", << >>, << >>, << >>, 0, 0, 0,
                    0, "L")
            /\ otherWords = o

\* compareTo of the first node with the second, whatever the pairer yields.
SpecCompare == InitCompare /\ [][compareTo]_vars

\* Neighbors added one by one or in batches, the owner persisting the node in
\* between, and removeNeighbor(k) called right after an addNeighbor(k, T).
NextAddRemove ==
    \/ \E k \in EdgeIds, t \in Transforms : addNeighbor(k, t)
    \/ \E m \in BatchMaps : addNeighbors(m)
    \/ ownerSaves
    \/ \E k \in EdgeIds :
           last.op = "addNeighbor" /\ last.a = k /\ removeNeighbor(k)

SpecAddRemove == InitScenario /\ [][NextAddRemove]_vars

\* The removal of words on the scenario's node, given one neighbor, one loop
\* closure and one child loop closure, words remapped to 9 and the owner
\* persisting the node in between.
NextWordsFrame ==
    \/ addNeighbor(2, "T1")
    \/ addLoopClosureId(2, "T1")
    \/ addChildLoopClosureId(3, "T2")
    \/ ownerSaves
    \/ \E a \in WordIds : changeWordsRef(a, 9)
    \/ \E k \in WordIds : removeWord(k)
    \/ removeAllWords

SpecWordsFrame == InitScenario /\ [][NextWordsFrame]_vars

\* The identifier, map identifier, pose and local transform two nodes are
\* constructed with.
CtorArgs == {<<1, 0, "P", "L">>, <<2, 1, "P2", "L2">>}

\* The arguments setDepth is called with: a depth buffer with valid
\* intrinsics, one with invalid intrinsics, and no depth buffer.
DepthArgs ==
    {<< <<1, 2, 3>>, 1, 1, 0, 0>>, << <<1, 2, 3>>, 0, 0, 0, 0>>,
     << << >>, 0, 0, 0, 0>>}

\* A node constructed with the scenario's words and either of CtorArgs, and
\* a second node to compare it with.
InitNode ==
    \E c \in CtorArgs :
        /\ Ctor(c[1], c[2], (5 :> <<"kp1">>) @@ (7 :> <<"kp2">>),
                (5 :> <<"pt1">>) @@ (7 :> <<"pt2">>),
                c[3], << >>, << >>, << >>, 0, 0, 0, 0, c[4])
        /\ otherWords = (5 :> <<"kp1">>)

\* Every operation of the node, and no operation of its owner: edges are
\* added under 2 and 3, moved between 2 and 3, a loop closure to 0 is asked
\* for, and words are remapped to 9.
NextNode ==
    \/ addNeighbor(2, "T1")
    \/ addNeighbors((2 :> "T2") @@ (3 :> "T2"))
    \/ \E k \in {2, 3} : removeNeighbor(k)
    \/ removeNeighbors
    \/ changeNeighborIds(2, 3)
    \/ \E k \in {0, 2} : addLoopClosureId(k, "T1")
    \/ addChildLoopClosureId(3, "T2")
    \/ \E b \in {0, 3} : changeLoopClosureId(2, b)
    \/ \E a \in {5, 7} : changeWordsRef(a, 9)
    \/ removeWord(9)
    \/ removeAllWords
    \/ \E d \in DepthArgs : setDepth(d[1], d[2], d[3], d[4], d[5])
    \/ compareTo

SpecNode == InitNode /\ [][NextNode]_vars

\* ------------------------------------------------------------------ claims

\* words and words3 hold the same number of entries under every identifier.
Lockstep == \A k \in WordIds : MMCount(words, k) = MMCount(words3, k)

\* C1 as stated: whatever words and words3 the constructor is handed, in
\* every reachable state the number of entries under each identifier is the
\* same in words and in words3.
C1_LockstepFromAnyMaps ==
    \A k \in WordIds : Len(uValues(words, k)) = Len(uValues(words3, k))

\* C1, amended: a node whose constructor is handed words and words3 with the
\* same number of entries under every identifier keeps that in every state
\* reached by removeWord, removeAllWords and changeWordsRef.
C1_LockstepKept == Lockstep => []Lockstep

\* C1's case: changeWordsRef has moved entries onto an identifier that now
\* holds two of them in words and the same two in words3.
C1_Witness ==
    /\ last.op = "changeWordsRef"
    /\ last.n >= 1
    /\ MMCount(words, last.b) = 2
    /\ MMCount(words3, last.b) = 2
    /\ Lockstep

\* C2 as stated: the reserved id 0 is never a key of loopClosureIds nor of
\* childLoopClosureIds.
C2_ZeroNeverLinked ==
    ~MapHas(loopClosureIds, 0) /\ ~MapHas(childLoopClosureIds, 0)

\* Key k is in both maps with the same transform, or in neither.
SameEdge(m1, m2, k) ==
    /\ MapHas(m1, k) <=> MapHas(m2, k)
    /\ MapHas(m1, k) => m1[k] = m2[k]

\* C3 as stated: after addNeighbor(id, T) the neighbor map maps id to T,
\* whether or not id was a neighbor before; every other edge is unchanged and
\* neighborsModified is true.
C3_AddNeighborOverwrites ==
    [][last'.op = "addNeighbor" =>
        /\ MapHas(neighbors', last'.a)
        /\ neighbors'[last'.a] = last'.t
        /\ \A k \in EdgeIds \ {last'.a} : SameEdge(neighbors, neighbors', k)
        /\ neighborsModified' = TRUE]_vars

\* C3, amended: after addNeighbor(id, T) the neighbor map maps id to T when id
\* was not a neighbor before, and to the transform it already had when it
\* was; every other edge is unchanged and neighborsModified is true.
C3_AddNeighborKeepsFirst ==
    [][last'.op = "addNeighbor" =>
        /\ MapHas(neighbors', last'.a)
        /\ neighbors'[last'.a] =
               IF MapHas(neighbors, last'.a) THEN neighbors[last'.a]
               ELSE last'.t
        /\ \A k \in EdgeIds \ {last'.a} : SameEdge(neighbors, neighbors', k)
        /\ neighborsModified' = TRUE]_vars

\* C3's case: addNeighbor(id, T) was called on a persisted node for an id
\* that was a neighbor with another transform.
C3_Witness ==
    /\ last.op = "addNeighbor"
    /\ MapHas(neighbors, last.a)
    /\ neighbors[last.a] # last.t
    /\ saved
    /\ neighborsModified

\* C4 as stated: when from -> T is a neighbor edge, after
\* changeNeighborIds(from, to) key to maps to T (also when to was a neighbor
\* with another transform), from is absent unless from = to, every other
\* edge is unchanged and neighborsModified is true.
C4_MoveOverwrites ==
    [][(last'.op = "changeNeighborIds" /\ MapHas(neighbors, last'.a)) =>
        /\ MapHas(neighbors', last'.b)
        /\ neighbors'[last'.b] = neighbors[last'.a]
        /\ last'.a # last'.b => ~MapHas(neighbors', last'.a)
        /\ \A k \in EdgeIds \ {last'.a, last'.b} :
               SameEdge(neighbors, neighbors', k)
        /\ neighborsModified' = TRUE]_vars

\* C4, amended: when from -> T is a neighbor edge, after
\* changeNeighborIds(from, to) key to maps to T if to was not a neighbor or
\* to = from, and keeps the transform it had if to was another neighbor (T is
\* then dropped); from is absent unless from = to, every other edge is
\* unchanged and neighborsModified is true.
C4_MoveKeepsTarget ==
    [][(last'.op = "changeNeighborIds" /\ MapHas(neighbors, last'.a)) =>
        /\ MapHas(neighbors', last'.b)
        /\ neighbors'[last'.b] =
               IF MapHas(neighbors, last'.b) /\ last'.b # last'.a
               THEN neighbors[last'.b]
               ELSE neighbors[last'.a]
        /\ last'.a # last'.b => ~MapHas(neighbors', last'.a)
        /\ \A k \in EdgeIds \ {last'.a, last'.b} :
               SameEdge(neighbors, neighbors', k)
        /\ neighborsModified' = TRUE]_vars

\* C4's case: changeNeighborIds(from, to) found from, on a persisted node,
\* while to was another neighbor with a transform other than the moved one.
C4_Witness ==
    /\ last.op = "changeNeighborIds"
    /\ last.n = 1
    /\ last.a # last.b
    /\ MapHas(neighbors, last.b)
    /\ neighbors[last.b] # last.t
    /\ saved

\* C5 as stated: changeLoopClosureId(from, to) moves the transform of from to
\* to in loopClosureIds (from is absent afterwards unless from = to) and
\* leaves childLoopClosureIds and the neighbor map as they were.
C5_LoopMoveOverwrites ==
    [][last'.op = "changeLoopClosureId" =>
        /\ MapHas(loopClosureIds, last'.a) =>
               /\ MapHas(loopClosureIds', last'.b)
               /\ loopClosureIds'[last'.b] = loopClosureIds[last'.a]
               /\ last'.a # last'.b => ~MapHas(loopClosureIds', last'.a)
        /\ childLoopClosureIds' = childLoopClosureIds
        /\ neighbors' = neighbors]_vars

\* C5, amended: changeLoopClosureId(from, to) acts on loopClosureIds only:
\* when loopClosureIds holds from -> T, afterwards to maps to T if to was not
\* a key or to = from, and keeps the transform it had if to was another key;
\* from is absent unless from = to; in every case childLoopClosureIds and the
\* neighbor map are left as they were, even when they contain the key from.
C5_LoopMoveOnlyLoopClosures ==
    [][last'.op = "changeLoopClosureId" =>
        /\ MapHas(loopClosureIds, last'.a) =>
               /\ MapHas(loopClosureIds', last'.b)
               /\ loopClosureIds'[last'.b] =
                      IF MapHas(loopClosureIds, last'.b) /\ last'.b # last'.a
                      THEN loopClosureIds[last'.b]
                      ELSE loopClosureIds[last'.a]
               /\ last'.a # last'.b => ~MapHas(loopClosureIds', last'.a)
        /\ childLoopClosureIds' = childLoopClosureIds
        /\ neighbors' = neighbors]_vars

\* C5's case: changeLoopClosureId(from, to) has moved the loop closure of
\* from to another key while from is also a child loop closure and a
\* neighbor.
C5_Witness ==
    /\ last.op = "changeLoopClosureId"
    /\ last.n = 1
    /\ last.a # last.b
    /\ MapHas(loopClosureIds, last.b)
    /\ MapHas(childLoopClosureIds, last.a)
    /\ MapHas(neighbors, last.a)

\* The effect C6 describes of a call (id, T) on the targeted map, m before
\* and m2 after the call.
FirstWriterWins(m, m2, k, t) ==
    IF k # 0 /\ ~MapHas(m, k)
    THEN /\ DOMAIN m2 = (DOMAIN m) \cup {k}
         /\ m2[k] = t
         /\ \A x \in DOMAIN m : m2[x] = m[x]
         /\ neighborsModified' = TRUE
    ELSE UNCHANGED node

\* C6: addLoopClosureId and addChildLoopClosureId insert id -> T and set
\* neighborsModified when id is not 0 and not yet a key of the targeted map;
\* with id = 0 or an id already a key they leave the stored transform and
\* the whole node unchanged, so a key keeps the transform of the call that
\* inserted it.
C6_FirstWriterWins ==
    [][/\ last'.op = "addLoopClosureId" =>
              FirstWriterWins(loopClosureIds, loopClosureIds',
                              last'.a, last'.t)
       /\ last'.op = "addChildLoopClosureId" =>
              FirstWriterWins(childLoopClosureIds, childLoopClosureIds',
                              last'.a, last'.t)]_vars

\* C6's case: addLoopClosureId(id, T) was called on a persisted, unmodified
\* node for an id that was already a key with another transform, which is
\* still stored.
C6_Witness ==
    /\ last.op = "addLoopClosureId"
    /\ last.a # 0
    /\ last.n = 0
    /\ MapHas(loopClosureIds, last.a)
    /\ loopClosureIds[last.a] # last.t
    /\ ~neighborsModified

\* C7: changeNeighborIds(a, b) with a not a neighbor, changeLoopClosureId(a, b)
\* with a not a key of loopClosureIds and changeWordsRef(a, b) with no entry
\* under a in words leave every field of the node unchanged, and do not fail.
C7_UnknownKeyIsNoOp ==
    [][/\ (last'.op = "changeNeighborIds" /\ ~MapHas(neighbors, last'.a))
              => UNCHANGED node
       /\ (last'.op = "changeLoopClosureId"
              /\ ~MapHas(loopClosureIds, last'.a))
              => UNCHANGED node
       /\ (last'.op = "changeWordsRef" /\ MMCount(words, last'.a) = 0)
              => UNCHANGED node]_vars

\* C7's case: changeNeighborIds(a, b) was called with a not a neighbor on a
\* persisted, unmodified node that has other neighbors, loop closures and
\* remapped words.
C7_Witness ==
    /\ last.op = "changeNeighborIds"
    /\ last.n = 0
    /\ ~neighborsModified
    /\ neighbors # EmptyMap
    /\ loopClosureIds # EmptyMap
    /\ wordsChanged # << >>
    /\ ~fatal

\* The number of entries of a list that hold the value v.
Occurrences(vals, v) == Cardinality({i \in 1..Len(vals) : vals[i] = v})

\* What C8 says of a feature map, m before and m2 after changeWordsRef(a, b),
\* over the value set V: b holds its own entries and those of a, value by
\* value, a holds none, every other identifier holds what it held.
MovedTo(m, m2, a, b, V) ==
    /\ MMCount(m2, b) = MMCount(m, b) + MMCount(m, a)
    /\ \A v \in V : Occurrences(uValues(m2, b), v) =
           Occurrences(uValues(m, b), v) + Occurrences(uValues(m, a), v)
    /\ MMCount(m2, a) = 0
    /\ \A k \in WordIds \ {a, b} : uValues(m2, k) = uValues(m, k)

\* C8 as stated: for a # b, changeWordsRef(a, b) moves every entry of a to b
\* in words and likewise in words3.
C8_MovesBothMaps ==
    [][(last'.op = "changeWordsRef" /\ last'.a # last'.b) =>
        /\ MovedTo(words, words', last'.a, last'.b, KeyPoints)
        /\ MovedTo(words3, words3', last'.a, last'.b, Points)]_vars

\* C8, amended: for a # b, changeWordsRef(a, b) moves every entry of a to b
\* in words; in words3 it does so when a has at least one entry in words,
\* and leaves words3 as it was when a has none (even if words3 has entries
\* under a).
C8_MovesWhenWordsHasEntries ==
    [][(last'.op = "changeWordsRef" /\ last'.a # last'.b) =>
        /\ MovedTo(words, words', last'.a, last'.b, KeyPoints)
        /\ IF MMCount(words, last'.a) >= 1
           THEN MovedTo(words3, words3', last'.a, last'.b, Points)
           ELSE words3' = words3]_vars

\* C8's case: changeWordsRef(a, b), a # b, has moved the entries of a, in
\* words and in words3, onto an identifier b that had entries of its own.
C8_Witness ==
    /\ last.op = "changeWordsRef"
    /\ last.a # last.b
    /\ last.n >= 1
    /\ MMCount(words, last.b) > last.n
    /\ MMCount(words3, last.b) = MMCount(words, last.b)
    /\ MMCount(words, last.a) = 0

C10_FlagOnlyOnRemoval ==
    [][/\ last'.op = "removeNeighbor" =>
              IF MapHas(neighbors, last'.a)
              THEN /\ ~MapHas(neighbors', last'.a)
                   /\ \A k \in EdgeIds \ {last'.a} :
                          SameEdge(neighbors, neighbors', k)
                   /\ neighborsModified' = TRUE
              ELSE /\ neighbors' = neighbors
                   /\ neighborsModified' = neighborsModified
       /\ last'.op = "removeNeighbors" =>
              IF neighbors # EmptyMap
              THEN neighbors' = EmptyMap /\ neighborsModified' = TRUE
              ELSE /\ neighbors' = neighbors
                   /\ neighborsModified' = neighborsModified]_vars

\* C10's case: removeNeighbor(k) was called with k absent on a persisted,
\* unmodified node that has other neighbors: the flag is still false.
C10_Witness ==
    /\ last.op = "removeNeighbor"
    /\ last.n = 0
    /\ neighbors # EmptyMap
    /\ ~neighborsModified

\* fx > 0, fy > 0, cx >= 0, cy >= 0.
ValidIntrinsics(fx0, fy0, cx0, cy0) ==
    fx0 > 0 /\ fy0 > 0 /\ cx0 >= 0 /\ cy0 >= 0

\* C11: setDepth(depth, fx, fy, cx, cy) with a non-empty depth and intrinsics
\* that are not valid ends in a fatal failure with the stored depth, fx, fy,
\* cx, cy unchanged; in every other case it succeeds and the stored depth and
\* intrinsics equal the arguments.
C11_SetDepthAllOrNothing ==
    [][last'.op = "setDepth" =>
        LET arg == last'.t
        IN  IF arg[1] # << >>
                  /\ ~ValidIntrinsics(arg[2], arg[3], arg[4], arg[5])
            THEN fatal' = TRUE /\ UNCHANGED depthVars
            ELSE /\ fatal' = FALSE
                 /\ <<depth', fx', fy', cx', cy'>> = arg]_vars

\* C11's case: setDepth([1,2,3], 0, 0, 0, 0) has failed on a node that has no
\* depth and keeps none.
C11_Witness ==
    /\ last.op = "setDepth"
    /\ last.t = << <<1, 2, 3>>, 0, 0, 0, 0 >>
    /\ fatal
    /\ depth = << >>

\* A non-empty depth buffer comes with valid intrinsics.
DepthValid == depth # << >> => ValidIntrinsics(fx, fy, cx, cy)

\* C12 as stated: from construction with any arguments and after any
\* sequence of setDepth calls, a non-empty depth implies valid intrinsics.
C12_DepthValidFromAnyArguments ==
    Len(depth) > 0 => (fx > 0 /\ fy > 0 /\ cx >= 0 /\ cy >= 0)

\* C12, amended: a non-empty depth implies valid intrinsics in every state of
\* a node whose constructor arguments satisfy that rule, and, whatever the
\* constructor arguments, in every state reached by a setDepth call that
\* returned.
C12_DepthValidKept ==
    /\ DepthValid => []DepthValid
    /\ [][(last'.op = "setDepth" /\ ~fatal') => DepthValid']_vars

\* C12's case: setDepth has returned after storing a non-empty depth, on a
\* node that held other intrinsics before.
C12_Witness ==
    /\ last.op = "setDepth"
    /\ ~fatal
    /\ depth = <<1, 2, 3>>
    /\ <<depth, fx, fy, cx, cy>> = last.t
    /\ DepthValid

\* A words map has no entry.
NoWords(mm) == \A k \in WordIds : MMCount(mm, k) = 0

\* The number of entries of a words map, identifier by identifier.
RECURSIVE Entries(_, _)
Entries(mm, ids) ==
    IF ids = {} THEN 0
    ELSE LET k == CHOOSE x \in ids : TRUE
         IN  MMCount(mm, k) + Entries(mm, ids \ {k})

\* C13: compareTo(other) returns exactly 0, without consulting the pairer,
\* when this node's words or the other node's words is empty; otherwise it
\* returns the number of pairs the pairer yields for (other.words,
\* this.words) divided by the larger of the two numbers of entries.
C13_SimilarityRatio ==
    last.op = "compareTo" =>
        IF NoWords(words) \/ NoWords(otherWords)
        THEN last.a = 0 /\ last.b = 1 /\ last.n = 0
        ELSE /\ last.n = 1
             /\ last.t \in FindPairs(otherWords, words)
             /\ last.a = Cardinality(last.t)
             /\ last.b >= Entries(words, WordIds)
             /\ last.b >= Entries(otherWords, WordIds)
             /\ last.b \in {Entries(words, WordIds),
                            Entries(otherWords, WordIds)}

\* C13's case: compareTo has returned 1/2: one pair found, the larger node
\* has two entries, the smaller one.
C13_Witness ==
    /\ last.op = "compareTo"
    /\ last.n = 1
    /\ last.a = 1
    /\ last.b = 2
    /\ Entries(words, WordIds) # Entries(otherWords, WordIds)

\* C20: with at most one pair per identifier shared by the two nodes, the
\* number of pairs is at most the larger number of entries, so compareTo
\* returns a value between 0 and 1 inclusive; and compareTo changes no field
\* of either node.
C20_SimilarityInUnitRange ==
    /\ [](last.op = "compareTo" =>
            (last.b >= 1 /\ 0 <= last.a /\ last.a <= last.b))
    /\ [][last'.op = "compareTo" => UNCHANGED <<node, otherWords>>]_vars

\* C20's case: compareTo has returned 1: two nodes of two entries each, both
\* identifiers paired.
C20_Witness ==
    /\ last.op = "compareTo"
    /\ last.n = 1
    /\ last.a = 2
    /\ last.b = 2

\* C14: isBadSignature is true exactly when words has no entry; so it is
\* true after removeAllWords, and after a removeWord of the only identifier
\* that had entries.
C14_BadIffNoWords ==
    /\ [](isBadSignature <=> NoWords(words))
    /\ [](last.op = "removeAllWords" => isBadSignature)
    /\ [][(/\ last'.op = "removeWord"
           /\ \A k \in WordIds \ {last'.a} : MMCount(words, k) = 0)
          => isBadSignature']_vars

\* C14's case: removeWord has erased the entries of the last identifier of
\* words while 3D entries of another identifier remain, and the node is bad.
C14_Witness ==
    /\ last.op = "removeWord"
    /\ last.n >= 1
    /\ NoWords(words)
    /\ ~NoWords(words3)
    /\ isBadSignature

\* C15: addNeighbor(k, T) leaves every edge other than k as it was, and the
\* removeNeighbor(k) that follows it leaves the key k out of the neighbor
\* map, every other edge as it was, and neighborsModified true: so after the
\* two calls every edge other than k is as before them.
C15_AddThenRemove ==
    [][/\ last'.op = "addNeighbor" =>
              /\ MapHas(neighbors', last'.a)
              /\ \A k \in EdgeIds \ {last'.a} :
                     SameEdge(neighbors, neighbors', k)
       /\ (last.op = "addNeighbor" /\ last'.op = "removeNeighbor"
           /\ last'.a = last.a) =>
              /\ ~MapHas(neighbors', last'.a)
              /\ \A k \in EdgeIds \ {last'.a} :
                     SameEdge(neighbors, neighbors', k)
              /\ neighborsModified' = TRUE]_vars

\* C15's case: on a persisted node addNeighbor(k, T) was followed by
\* removeNeighbor(k): the neighbor map is empty again and the flag is true.
C15_Witness ==
    /\ last.op = "removeNeighbor"
    /\ last.n = 1
    /\ saved
    /\ neighbors = EmptyMap
    /\ neighborsModified

\* What removeWord and removeAllWords leave alone: the remap ledger, the
\* three edge maps and the flags modified and neighborsModified.
WordRemovalFrame ==
    UNCHANGED <<wordsChanged, neighbors, loopClosureIds, childLoopClosureIds,
                modified, neighborsModified>>

\* C16: removeWord(id) erases every entry under id from words and from
\* words3, keeps the entries of every other identifier in both maps, and
\* leaves the ledger, the edge maps and the two flags unchanged;
\* removeAllWords() empties words and words3 and leaves the same unchanged.
C16_WordRemovalFrame ==
    [][/\ last'.op = "removeWord" =>
              /\ MMCount(words', last'.a) = 0
              /\ MMCount(words3', last'.a) = 0
              /\ \A k \in WordIds \ {last'.a} :
                     /\ uValues(words', k) = uValues(words, k)
                     /\ uValues(words3', k) = uValues(words3, k)
              /\ WordRemovalFrame
       /\ last'.op = "removeAllWords" =>
              /\ NoWords(words')
              /\ NoWords(words3')
              /\ WordRemovalFrame]_vars

\* C16's case: removeWord(9) has erased the two entries remapped to 9 on a
\* persisted node that has edges and a ledger: flags still false.
C16_Witness ==
    /\ last.op = "removeWord"
    /\ last.n = 2
    /\ NoWords(words)
    /\ Len(wordsChanged) = 2
    /\ neighbors # EmptyMap
    /\ loopClosureIds # EmptyMap
    /\ childLoopClosureIds # EmptyMap
    /\ ~modified
    /\ ~neighborsModified

\* C17: a call of removeWord, removeAllWords or changeWordsRef made while
\* words and words3 hold the same number of entries under every identifier
\* leaves them so, whatever the arguments.
C17_LockstepStep ==
    [][(/\ last'.op \in {"removeWord", "removeAllWords", "changeWordsRef"}
        /\ Lockstep)
       => Lockstep']_vars

\* C17's case: changeWordsRef(a, a) has re-inserted the two entries of a in
\* both maps, which held the same counts before it as after it.
C17_Witness ==
    /\ last.op = "changeWordsRef"
    /\ last.a = last.b
    /\ last.n = 2
    /\ MMCount(words, last.a) = 2
    /\ MMCount(words3, last.a) = 2
    /\ Lockstep

\* C18: under any sequence of the node's own operations neighborsModified is
\* true in every reachable state: the constructor sets it and no operation
\* clears it.
C18_NeighborsModifiedStaysTrue == neighborsModified = TRUE

\* C18's case: removeNeighbors() was called on a node without neighbors,
\* which leaves the flag alone, and the flag is true.
C18_Witness ==
    /\ last.op = "removeNeighbors"
    /\ last.n = 0
    /\ loopClosureIds # EmptyMap
    /\ neighborsModified

\* C19: id and mapId are the constructor's arguments and, like pose and
\* localTransform, are changed by no edge, word or setDepth operation; weight
\* = 0, saved = false, modified = true and enabled = false in every state.
C19_ConstructionFieldsKept ==
    /\ last.op = "Signature" => (id = last.a /\ mapId = last.b)
    /\ \A c \in CtorArgs :
           <<id, mapId, pose, localTransform>> = c
               => [](<<id, mapId, pose, localTransform>> = c)
    /\ [](weight = 0 /\ saved = FALSE /\ modified = TRUE /\ enabled = FALSE)

\* C19's case: the second node after a loop closure was added, its words
\* removed and its depth set: the fields are still the constructor's.
C19_Witness ==
    /\ <<id, mapId, pose, localTransform>> = <<2, 1, "P2", "L2">>
    /\ last.op = "setDepth"
    /\ depth = <<1, 2, 3>>
    /\ loopClosureIds # EmptyMap
    /\ NoWords(words)
    /\ weight = 0 /\ ~saved /\ modified /\ ~enabled

====
